---------------------------- MODULE Spec2Model ----------------------------
(***************************************************************************)
(* A model of the document-grounded chat assistant (pilot RAG):            *)
(*   - DocumentProcessor: _split_text_into_chunks, _create_chunks,         *)
(*     process_pdf                       (src/document_processor.py)       *)
(*   - VectorSearchEngine: refresh_index, search                           *)
(*   - the routes upload_document, delete_document, refresh_index, chat,   *)
(*     test_openrouter, clear_chat, clear_session        (src/routes.py)   *)
(*   - RAGClient.chat_with_rag and its helpers        (src/rag_client.py)  *)
(*                                                                         *)
(* Strings are modelled by what the code reads of them.  In the chunker a  *)
(* text is a record [len, sp]: its length and the set of positions that    *)
(* hold a space; every other position holds a non-whitespace character.    *)
(* (After _clean_text, line 85, a space is the only whitespace in a page.) *)
(***************************************************************************)
EXTENDS Integers, Sequences, FiniteSets, TLC

VARIABLES
    \* ---- DocumentProcessor._split_text_into_chunks (one call) ----
    text,        \* the argument `text`
    start,       \* local `start`
    chunks,      \* local `chunks`: the strings appended so far
    spans,       \* for each entry of chunks, the <<lo, hi>> it was sliced at
    seen,        \* the values `start` has had at the loop head so far
    pc,          \* where the chunker is
    \* ---- DocumentProcessor._create_chunks (one call) ----
    pages,       \* the part of text_pages not yet iterated
    chunk_index, \* local `chunk_index`
    added,       \* DocumentChunk rows added to the session, not yet committed
    stored,      \* DocumentChunk rows committed for the document
    \* ---- the record store (models.py) ----
    documents,   \* Document table with its cascaded DocumentChunk rows, by id
    next_id,     \* the next Document id the store hands out
    chat_log,    \* ChatHistory table, in insertion order
    \* ---- routes.py module state ----
    vector_search,      \* the shared VectorSearchEngine (chunks, vectorizer, document_vectors)
    session,            \* secure_sessions[session_id]: api_key, chat_history
    last_refresh,       \* how the last call of refresh_index on it ended ("never": no call yet)
    \* ---- what the client has seen ----
    resp,               \* the outcome of the last request
    turns,              \* the number of chat turns answered since the initial state
    \* ---- DocumentProcessor.process_pdf (one call) ----
    pdf,         \* the pages of the file at file_path, as PyPDF2 reads them
    text_chunks, \* local `text_chunks`: the (page_number, text) list extracted
    document,    \* the Document record of the call
    \* ---- request threads on the shared engine ----
    threads      \* per thread: the call it runs, where it is, and its locals

chunkerVars == <<text, start, chunks, spans, seen, pages, chunk_index, added, stored>>

chunkVars == <<chunkerVars, pc>>

sysVars == <<documents, next_id, chat_log, vector_search, last_refresh, session, resp, turns>>

localVars == <<pdf, text_chunks, document, threads>>

vars == <<chunkVars, sysVars, localVars>>

-----------------------------------------------------------------------------
(* Program constants *)

chunk_size == 1000
chunk_overlap == 200
MinChunkLen == 50
min_df == 1
max_df_pct == 95        \* max_df = 0.95, in percent
MinSimilarity == 10     \* 0.1, in hundredths
MergeScore == 50        \* 0.5, in hundredths
max_chunks == 5
MaxHistory == 20
ShortMessageLen == 15
ShortLineLen == 10
MinWordLen == 3

(* Bounds of the model *)

MaxSpaces == 2
MaxPages == 2
MaxChunksPerDoc == 2
MaxUploads == 2
MaxChats == 2
MaxTopK == 3

-----------------------------------------------------------------------------
(* Strings: [len |-> n, sp |-> set of positions in 0..n-1 holding ' '] *)

EmptyStr == [len |-> 0, sp |-> {}]

Max(S) == CHOOSE x \in S : \A y \in S : y <= x

\* text[lo:hi] for 0 <= lo, as Python slices it (hi clamped to the length)
Slice(s, lo, hi) ==
    LET h == IF hi > s.len THEN s.len ELSE hi
    IN IF lo >= h THEN EmptyStr
       ELSE [len |-> h - lo, sp |-> {p - lo : p \in {q \in s.sp : lo <= q /\ q < h}}]

\* text.rfind(' ', lo, hi): the highest index of a space in [lo, hi), or -1
RFind(s, lo, hi) ==
    LET c == {p \in s.sp : lo <= p /\ p < hi}
    IN IF c = {} THEN -1 ELSE Max(c)

\* a + b
Concat(a, b) == [len |-> a.len + b.len, sp |-> a.sp \cup {p + a.len : p \in b.sp}]

\* number of leading whitespace characters from position i on
RECURSIVE LeadingWs(_, _)
LeadingWs(s, i) == IF i < s.len /\ i \in s.sp THEN 1 + LeadingWs(s, i + 1) ELSE 0

\* number of trailing whitespace characters of s[0:n]
RECURSIVE TrailingWs(_, _)
TrailingWs(s, n) == IF n > 0 /\ (n - 1) \in s.sp THEN 1 + TrailingWs(s, n - 1) ELSE 0

\* s.strip()
Strip(s) ==
    LET l == LeadingWs(s, 0)
    IN IF l = s.len THEN EmptyStr
       ELSE Slice(s, l, s.len - TrailingWs(s, s.len))

-----------------------------------------------------------------------------
(* The inputs of the chunker specifications *)

\* all strings of length n whose spaces lie in P, at most MaxSpaces of them
StrsOver(n, P) ==
    {[len |-> n, sp |-> S] : S \in {T \in SUBSET {p \in P : p < n} : Cardinality(T) <= MaxSpaces}}

\* texts for a direct call of _split_text_into_chunks: lengths around one and two
\* windows, spaces around the window and overlap boundaries
SplitLens ==
    {0, 1, chunk_size - 1, chunk_size, chunk_size + 1,
     chunk_size + chunk_overlap \div 2 + 1, 2 * chunk_size + chunk_overlap \div 2 + 1}
SplitSpacePos ==
    {0, 1, chunk_overlap \div 2, chunk_overlap, chunk_overlap + 1,
     chunk_overlap + chunk_overlap \div 2, chunk_size - 1, chunk_size,
     chunk_size + chunk_overlap \div 2, 2 * chunk_size - chunk_overlap \div 2}
SplitTexts == UNION {StrsOver(n, SplitSpacePos) : n \in SplitLens}

\* page texts for _create_chunks: lengths around the 50-character floor, and one
\* page longer than a window
PageLens == {0, MinChunkLen, MinChunkLen + 1, MinChunkLen + 2, chunk_size + chunk_overlap}
PageSpacePos ==
    {0, MinChunkLen - 10, MinChunkLen, MinChunkLen + 1, chunk_overlap + chunk_overlap \div 2}
PageTexts == UNION {StrsOver(n, PageSpacePos) : n \in PageLens}

\* text_pages: a list of (page_number, text)
RECURSIVE SeqsUpTo(_, _)
SeqsUpTo(S, n) ==
    IF n = 0 THEN {<<>>}
    ELSE LET shorter == SeqsUpTo(S, n - 1)
         IN shorter \cup {Append(q, x) : q \in {r \in shorter : Len(r) = n - 1}, x \in S}
PageLists ==
    {[i \in 1..Len(q) |-> [page_num |-> i, page_text |-> q[i]]] : q \in SeqsUpTo(PageTexts, MaxPages)}

-----------------------------------------------------------------------------
(* DocumentProcessor._split_text_into_chunks, one loop iteration per step *)

\* lines 131-133: break at the last space of the window, else at the window's end
ChunkEnd(s, st) ==
    LET end == st + chunk_size
        found == RFind(s, st, end)
    IN IF found = -1 \/ found <= st THEN end ELSE found

\* NextStart with the progress branch resuming one past the break point
NextStartPastBreak(chunk_end) ==
    LET st == chunk_end - chunk_overlap
    IN IF st <= 0 THEN chunk_end + 1 ELSE st

\* lines 136-140: step back by the overlap; "ensure we make progress"
NextStart(chunk_end) ==
    LET st == chunk_end - chunk_overlap
    IN IF st <= 0 THEN chunk_end ELSE st

\* lines 122-128: one evaluation of the loop condition and, when it holds, of the body
SplitStep ==
    /\ pc = "split_loop"
    /\ start \notin seen
    /\ seen' = seen \cup {start}
    /\ IF start < text.len
       THEN LET end == start + chunk_size
            IN IF end >= text.len
               THEN \* last chunk, break
                    /\ chunks' = Append(chunks, Slice(text, start, text.len))
                    /\ spans' = Append(spans, <<start, text.len>>)
                    /\ pc' = "split_return"
                    /\ start' = start
               ELSE LET chunk_end == ChunkEnd(text, start)
                    IN /\ chunks' = Append(chunks, Slice(text, start, chunk_end))
                       /\ spans' = Append(spans, <<start, chunk_end>>)
                       /\ start' = NextStart(chunk_end)
                       /\ pc' = "split_loop"
       ELSE /\ pc' = "split_return"
            /\ UNCHANGED <<chunks, spans, start>>
    /\ UNCHANGED <<text, pages, chunk_index, added, stored, sysVars, localVars>>

\* The loop body is a function of (text, start) alone: once the loop head is reached
\* with a start it has already had, the same iterations repeat for ever (the list
\* `chunks` grows until memory runs out).  The model stops there.
SplitDiverges ==
    /\ pc = "split_loop"
    /\ start \in seen
    /\ pc' = "split_diverged"
    /\ UNCHANGED <<text, start, chunks, spans, seen, pages, chunk_index, added, stored, sysVars, localVars>>

-----------------------------------------------------------------------------
(* DocumentProcessor._create_chunks *)

\* IsMeaningful with the length taken before strip()
IsMeaningfulUntrimmed(chunk_text) == chunk_text.len > MinChunkLen

\* line 105: only store meaningful chunks
IsMeaningful(chunk_text) == Strip(chunk_text).len > MinChunkLen

\* lines 104-112: the rows added for the chunks of one page, numbered from idx on
RECURSIVE PageRows(_, _, _)
PageRows(cs, page_num, idx) ==
    IF cs = <<>> THEN <<>>
    ELSE IF IsMeaningful(Head(cs))
         THEN <<[chunk_index |-> idx, page_number |-> page_num, text_content |-> Strip(Head(cs))]>>
              \o PageRows(Tail(cs), page_num, idx + 1)
         ELSE PageRows(Tail(cs), page_num, idx)

\* lines 100-102: the next page is handed to _split_text_into_chunks
CreateNextPage ==
    /\ pc = "pages_loop"
    /\ pages # <<>>
    /\ text' = Head(pages).page_text
    /\ start' = 0
    /\ chunks' = <<>>
    /\ spans' = <<>>
    /\ seen' = {}
    /\ pc' = "split_loop"
    /\ UNCHANGED <<pages, chunk_index, added, stored, sysVars, localVars>>

\* lines 104-112: the chunks of the page are filtered and added to the session
CreateAddPage ==
    /\ pc = "split_return"
    /\ pages # <<>>
    /\ LET rows == PageRows(chunks, Head(pages).page_num, chunk_index)
       IN /\ added' = added \o rows
          /\ chunk_index' = chunk_index + Len(rows)
    /\ pages' = Tail(pages)
    /\ pc' = "pages_loop"
    /\ UNCHANGED <<text, start, chunks, spans, seen, stored, sysVars, localVars>>

\* line 114: db.session.commit()
CreateCommit ==
    /\ pc = "pages_loop"
    /\ pages = <<>>
    /\ stored' = added
    /\ pc' = "created"
    /\ UNCHANGED <<text, start, chunks, spans, seen, pages, chunk_index, added, sysVars, localVars>>

-----------------------------------------------------------------------------
(* DocumentProcessor._extract_text_from_pdf, _clean_text and process_pdf *)

(* A page of the file is [readable, lines]: whether page.extract_text() returns,
   and the lines of the text it returns.  A line is [len, sp, junk]: a non-empty
   run of characters without '\n', without leading or trailing whitespace, its
   single spaces at the positions sp, and whose last `junk` characters are outside
   the set the cleaner keeps. *)

\* line 85 on one line boundary: the '\n' between two lines becomes one ' '
JoinLines(a, b) == Concat(a, Concat([len |-> 1, sp |-> {0}], b))

\* line 88: the characters outside the allowed set are removed
RemoveSpecial(line) == [len |-> line.len - line.junk, sp |-> line.sp]

\* lines 85-88: the text of the page after both substitutions
RECURSIVE Substituted(_)
Substituted(lines) ==
    IF lines = <<>> THEN EmptyStr
    ELSE IF Len(lines) = 1 THEN RemoveSpecial(Head(lines))
    ELSE JoinLines(RemoveSpecial(Head(lines)), Substituted(Tail(lines)))

\* lines 91-94: split('\n') of a text that holds no '\n' any more is the one-element
\* list [text]; that element is kept when its stripped length exceeds 10
CleanText(lines) ==
    LET line == Strip(Substituted(lines))
    IN IF line.len > ShortLineLen THEN line ELSE EmptyStr

\* line 72: text.strip() of the text as extracted, before any cleaning
HasText(page) == page.lines # <<>>

\* lines 69-78: the pages in order, numbered from page_num on
RECURSIVE ExtractTextFromPdf(_, _)
ExtractTextFromPdf(ps, page_num) ==
    IF ps = <<>> THEN <<>>
    ELSE IF Head(ps).readable /\ HasText(Head(ps))
         THEN <<[page_num |-> page_num, page_text |-> CleanText(Head(ps).lines)]>>
              \o ExtractTextFromPdf(Tail(ps), page_num + 1)
         ELSE ExtractTextFromPdf(Tail(ps), page_num + 1)

NoDocument == [exists |-> FALSE, processed |-> FALSE, page_count |-> 0]

\* lines 24-41: the Document row is committed unprocessed, the text is extracted
\* and handed to _create_chunks; a file that cannot be read makes the call raise
\* and the row is deleted again (lines 51-60)
ProcessPdfBegin ==
    /\ pc = "process_pdf"
    /\ \E opened \in BOOLEAN :
          IF opened
          THEN /\ text_chunks' = ExtractTextFromPdf(pdf, 1)
               /\ pages' = ExtractTextFromPdf(pdf, 1)
               /\ document' = [exists |-> TRUE, processed |-> FALSE, page_count |-> 0]
               /\ pc' = "pages_loop"
          ELSE /\ document' = NoDocument
               /\ pc' = "raised"
               /\ UNCHANGED <<text_chunks, pages>>
    /\ UNCHANGED <<text, start, chunks, spans, seen, chunk_index, added, stored, pdf, threads, sysVars>>

\* lines 44-49: mark as processed and return the document
ProcessPdfEnd ==
    /\ pc = "created"
    /\ document.exists
    /\ document' = [document EXCEPT !.processed = TRUE, !.page_count = Len(text_chunks)]
    /\ pc' = "processed"
    /\ UNCHANGED <<chunkerVars, pdf, text_chunks, threads, sysVars>>

-----------------------------------------------------------------------------
(* The record store and the texts it holds, as far as the index reads them *)

\* A stored chunk text is modelled by the index terms it contains (after the
\* English stop-word list): "stop" is a chunk of stop words only.
ChunkTexts == {"brake", "oil", "stop"}
TermsOf(t) == IF t = "stop" THEN {} ELSE {t}

\* the chunk lists a processed upload can leave, page by page
DocChunkLists == SeqsUpTo(ChunkTexts, MaxChunksPerDoc)

DocIds == DOMAIN documents

\* the DocumentChunk rows of Document id, in chunk_index order
ChunksOfDoc(docs, id) ==
    [i \in 1..Len(docs[id].chunks) |->
        [document_id |-> id, chunk_index |-> i - 1, text_content |-> docs[id].chunks[i]]]

\* DocumentChunk.query.join(Document).filter(Document.processed == True).all(),
\* in primary-key order
RECURSIVE ChunksOfDocs(_, _)
ChunksOfDocs(docs, ids) ==
    IF ids = {} THEN <<>>
    ELSE LET lo == CHOOSE x \in ids : \A y \in ids : x <= y
         IN ChunksOfDoc(docs, lo) \o ChunksOfDocs(docs, ids \ {lo})
ProcessedChunks(docs) == ChunksOfDocs(docs, {id \in DOMAIN docs : docs[id].processed})

Range(f) == {f[i] : i \in DOMAIN f}

-----------------------------------------------------------------------------
(* VectorSearchEngine *)

\* __init__, lines 147-150
\* document_vectors is the list of chunks whose texts the matrix was computed from,
\* row by row; a matrix has at least one row (fit_transform raises on an empty
\* list), so the empty list stands for None
NoMatrix == <<>>
NewEngine == [chunks |-> <<>>, vectorizer |-> "None", vocabulary |-> {}, document_vectors |-> NoMatrix]

\* number of texts a term occurs in
DocFreq(t, cs) == Cardinality({i \in DOMAIN cs : t \in TermsOf(cs[i].text_content)})

\* lines 181-187 with TfidfVectorizer's pruning: a term is kept when it occurs in
\* at least min_df texts and in at most max_df (95%) of them
Vocabulary(cs) ==
    {t \in UNION {TermsOf(c.text_content) : c \in Range(cs)} :
        /\ DocFreq(t, cs) >= min_df
        /\ DocFreq(t, cs) * 100 <= max_df_pct * Len(cs)}

\* line 189: fit_transform raises ValueError when max_df * n_docs < min_df
\* ("max_df corresponds to < documents than min_df"), when no text holds a term
\* ("empty vocabulary") and when pruning leaves no term
FitRaises(cs) ==
    \/ max_df_pct * Len(cs) < min_df * 100
    \/ Vocabulary(cs) = {}

\* RefreshIndex with the query result held in a local until the vectorizer is
\* built: an empty result leaves the engine as it was
RefreshIndexKeepsChunks(engine, docs, query_ok) ==
    IF ~query_ok
    THEN <<[engine EXCEPT !.chunks = <<>>], "query_failed">>
    ELSE LET cs == ProcessedChunks(docs)
         IN IF cs = <<>>
            THEN <<engine, "empty">>
            ELSE LET e2 == [engine EXCEPT !.chunks = cs, !.vectorizer = "unfitted", !.vocabulary = {}]
                 IN IF FitRaises(cs)
                    THEN <<e2, "fit_raised">>
                    ELSE <<[e2 EXCEPT !.vectorizer = "fitted",
                                      !.vocabulary = Vocabulary(cs),
                                      !.document_vectors = cs], "built">>

\* refresh_index, lines 161-190, over the store docs.  query_ok: the store query of
\* line 165 succeeds.  The result is <<engine after the call, how it ended>>:
\* "query_failed" (lines 168-171), "empty" (lines 173-175), "fit_raised" (the
\* exception of line 189 leaves the call) or "built".
RefreshIndex(engine, docs, query_ok) ==
    IF ~query_ok
    THEN <<[engine EXCEPT !.chunks = <<>>], "query_failed">>
    ELSE LET cs == ProcessedChunks(docs)
             e1 == [engine EXCEPT !.chunks = cs]
         IN IF cs = <<>>
            THEN <<e1, "empty">>
            ELSE LET e2 == [e1 EXCEPT !.vectorizer = "unfitted", !.vocabulary = {}]
                 IN IF FitRaises(cs)
                    THEN <<e2, "fit_raised">>
                    ELSE <<[e2 EXCEPT !.vectorizer = "fitted",
                                      !.vocabulary = Vocabulary(cs),
                                      !.document_vectors = cs], "built">>

\* Scores are in hundredths.  Cosine similarity of the query with a row is 0 when
\* they share no vocabulary term and positive otherwise; equal rows score equally.
PositiveScores == {MinSimilarity, MinSimilarity + 1, 6 * MinSimilarity}

Similarities(engine, terms) ==
    LET rows == engine.document_vectors
        hits == {t \in ChunkTexts : terms \cap TermsOf(t) \cap engine.vocabulary # {}}
    IN {[i \in DOMAIN rows |-> IF rows[i].text_content \in hits THEN f[rows[i].text_content] ELSE 0] :
           f \in [hits -> PositiveScores]}

\* every order of the indices, whatever their values
RECURSIVE OrdersOf(_)
OrdersOf(S) ==
    IF S = {} THEN {<<>>}
    ELSE UNION {{<<i>> \o r : r \in OrdersOf(S \ {i})} : i \in S}
ArgsortUnordered(sim) == OrdersOf(DOMAIN sim)

\* np.argsort(similarities): an ascending order of the indices; the default sort is
\* not stable, so equal values come in any order
RECURSIVE ArgsortOf(_, _)
ArgsortOf(sim, S) ==
    IF S = {} THEN {<<>>}
    ELSE UNION {{<<i>> \o r : r \in ArgsortOf(sim, S \ {i})} :
                   i \in {j \in S : \A k \in S : sim[j] <= sim[k]}}
Argsort(sim) == ArgsortOf(sim, DOMAIN sim)

\* TopIndices without the reversal: [:top_k]
TopIndicesAscending(order, top_k) ==
    LET n == Len(order)
        m == IF top_k < n THEN top_k ELSE n
    IN [i \in 1..m |-> order[i]]

\* [::-1][:top_k]
TopIndices(order, top_k) ==
    LET n == Len(order)
        m == IF top_k < n THEN top_k ELSE n
    IN [i \in 1..m |-> order[n + 1 - i]]

\* line 210: minimum similarity threshold
AboveThreshold(score) == score > MinSimilarity

\* lines 208-213: the loop over top_indices; err is the IndexError of line 211
\* when self.chunks is shorter than the matrix
RECURSIVE CollectResults(_, _, _)
CollectResults(engine, sim, idxs) ==
    IF idxs = <<>> THEN [err |-> FALSE, rows |-> <<>>]
    ELSE LET idx == Head(idxs)
             rest == CollectResults(engine, sim, Tail(idxs))
         IN IF ~AboveThreshold(sim[idx]) THEN rest
            ELSE IF idx > Len(engine.chunks) THEN [err |-> TRUE, rows |-> <<>>]
            ELSE [err |-> rest.err,
                  rows |-> <<[chunk |-> engine.chunks[idx], score |-> sim[idx], carried |-> FALSE]>>
                           \o rest.rows]

\* search, lines 192-220: the set of result lists the call can return.  Every
\* exception inside the try block (an unfitted vectorizer, an index out of range)
\* yields [].
Search(engine, terms, top_k) ==
    IF engine.vectorizer = "None" \/ engine.chunks = <<>>
    THEN {<<>>}
    ELSE IF engine.vectorizer = "unfitted"
         THEN {<<>>}
         ELSE UNION {{LET r == CollectResults(engine, sim, TopIndices(order, top_k))
                      IN IF r.err THEN <<>> ELSE r.rows : order \in Argsort(sim)} :
                     sim \in Similarities(engine, terms)}

-----------------------------------------------------------------------------
(* Chat messages *)

\* A message is modelled by what the handlers read of it: whether it is empty after
\* strip(), whether is_automotive_related accepts it, what _is_ambiguous_followup
\* reads of it (its length after strip(), the number of characters 'İ' (U+0130) in
\* it, the one character str.lower() replaces by two, and whether its lower-cased
\* text contains one of the phrases of lines 302-306), its words as the vectorizer
\* reads them, and its tokens as content.split() yields them.  A token is
\* [word, trail]: the lower-cased word followed by `trail` characters of '.,!?'.
\*   brake_q  "how often should I replace brake pads"
\*   more     "tell me more"
\*   weather  "nice weather today"
\*   empty    ""
Tok(w) == [word |-> w, trail |-> 0]

Messages ==
    {[id |-> "brake_q", empty |-> FALSE, automotive |-> TRUE,
      trimmed_len |-> 37, dotted_capital_i |-> 0, has_phrase |-> FALSE,
      words |-> {"often", "replace", "brake", "pads"}, tokens |-> <<Tok("how"), Tok("often"), Tok("should"), Tok("i"), Tok("replace"),
                   Tok("brake"), Tok("pads")>>],
     [id |-> "more", empty |-> FALSE, automotive |-> TRUE,
      trimmed_len |-> 12, dotted_capital_i |-> 0, has_phrase |-> TRUE,
      words |-> {"tell", "more"}, tokens |-> <<Tok("tell"), Tok("me"), Tok("more")>>],
     [id |-> "weather", empty |-> FALSE, automotive |-> FALSE,
      trimmed_len |-> 18, dotted_capital_i |-> 0, has_phrase |-> FALSE,
      words |-> {"nice", "weather", "today"}, tokens |-> <<Tok("nice"), Tok("weather"), Tok("today")>>],
     [id |-> "empty", empty |-> TRUE, automotive |-> FALSE,
      trimmed_len |-> 0, dotted_capital_i |-> 0, has_phrase |-> FALSE,
      words |-> {}, tokens |-> <<>>]}

\* a message with punctuation, for the turns of a history:
\*   oil_q    "What? check oil."
PunctuatedMessages ==
    {[id |-> "oil_q", empty |-> FALSE, automotive |-> TRUE,
      trimmed_len |-> 16, dotted_capital_i |-> 0, has_phrase |-> FALSE,
      words |-> {"check", "oil"},
      tokens |-> <<[word |-> "what", trail |-> 1], Tok("check"), [word |-> "oil", trail |-> 1]>>]}

MessageOf(id) == CHOOSE m \in Messages \cup PunctuatedMessages : m.id = id

UserTurn(m) == [role |-> "user", content |-> m.id]
AssistantTurn == [role |-> "assistant", content |-> "answer"]

\* h[-n:]
LastN(h, n) == IF Len(h) <= n THEN h ELSE SubSeq(h, Len(h) - n + 1, Len(h))

-----------------------------------------------------------------------------
(* RAGClient *)

\* len(message.lower().strip()), line 299: lower() keeps the length of a text but
\* for 'İ', which becomes the two characters 'i' + U+0307
LoweredLen(m) == m.trimmed_len + m.dotted_capital_i

\* IsAmbiguousFollowup with the length taken before lower()
IsAmbiguousFollowupTrimmed(m) == m.trimmed_len < ShortMessageLen \/ m.has_phrase

\* _is_ambiguous_followup, lines 297-312
IsAmbiguousFollowup(m) == LoweredLen(m) < ShortMessageLen \/ m.has_phrase

\* line 284: the words compared with w.lower()
ExcludedWords ==
    {"what", "when", "where", "how", "why", "which", "that", "this", "with", "from",
     "they", "have", "been", "will", "would", "could", "should"}

\* line 284: both tests read the token as split() gave it, punctuation included
IsImportant(t) ==
    /\ Len(t.word) + t.trail > MinWordLen
    /\ ~(t.trail = 0 /\ t.word \in ExcludedWords)

\* lines 282-285: w.strip('.,!?') of the tokens that pass, at most 3 per message
ImportantWords(tokens) ==
    LET kept == SelectSeq(tokens, IsImportant)
    IN [i \in 1..(IF Len(kept) < 3 THEN Len(kept) ELSE 3) |-> kept[i].word]

\* lines 279-285: the context terms of the recent user turns
RECURSIVE ContextTerms(_)
ContextTerms(h) ==
    IF h = <<>> THEN {}
    ELSE (IF Head(h).role = "user" THEN Range(ImportantWords(MessageOf(Head(h).content).tokens)) ELSE {})
         \cup ContextTerms(Tail(h))

\* EnhancedQueryTexts returning the message unchanged for an empty history only
EnhancedQueryTextsFromOneTurn(m, h) ==
    IF Len(h) < 1 THEN {[message |-> m.id, appended |-> {}]}
    ELSE LET terms == ContextTerms(LastN(h, 4))
         IN IF Cardinality(terms) <= 5 THEN {[message |-> m.id, appended |-> terms]}
            ELSE {[message |-> m.id, appended |-> T] : T \in {U \in SUBSET terms : Cardinality(U) = 5}}

\* _build_enhanced_search_query, lines 269-295: the texts the call can return, each
\* the message followed by the appended context terms (none: the message
\* unchanged); list(set(...))[:5] keeps any 5 of the distinct terms
EnhancedQueryTexts(m, h) ==
    IF Len(h) < 2 THEN {[message |-> m.id, appended |-> {}]}
    ELSE LET terms == ContextTerms(LastN(h, 4))
         IN IF Cardinality(terms) <= 5 THEN {[message |-> m.id, appended |-> terms]}
            ELSE {[message |-> m.id, appended |-> T] : T \in {U \in SUBSET terms : Cardinality(U) = 5}}

\* the words of the query texts, as the vectorizer reads them
BuildEnhancedSearchQuery(m, h) ==
    {MessageOf(q.message).words \cup q.appended : q \in EnhancedQueryTexts(m, h)}

\* MergeWithPreviousContext without the [:2] cut
MergeWithAllPrevious(current, previous) ==
    IF Len(current) < 3 /\ previous # <<>>
    THEN current \o [i \in 1..Len(previous) |->
                        [chunk |-> [document_id |-> 1, chunk_index |-> -1, text_content |-> previous[i]],
                         score |-> MergeScore, carried |-> TRUE]]
    ELSE current

\* _merge_with_previous_context, lines 314-335
MergeWithPreviousContext(current, previous) ==
    IF Len(current) < 3 /\ previous # <<>>
    THEN current \o [i \in 1..(IF Len(previous) < 2 THEN Len(previous) ELSE 2) |->
                        [chunk |-> [document_id |-> 1, chunk_index |-> -1, text_content |-> previous[i]],
                         score |-> MergeScore, carried |-> TRUE]]
    ELSE current

\* _build_context, lines 96-117: the sources listed; the text returned is empty
\* only when relevant_chunks is empty (header and footer are always joined in)
ContextSources(results) == SelectSeq(results, LAMBDA r : r.chunk.document_id \in DocIds)
ContextIsEmpty(results) == results = <<>>

\* ExtractFrom without the seen_docs test
RECURSIVE ExtractFromEveryChunk(_, _)
ExtractFromEveryChunk(results, seen_docs) ==
    IF results = <<>> THEN <<>>
    ELSE LET r == Head(results)
             id == r.chunk.document_id
         IN IF id \in DocIds
            THEN <<[id |-> id, relevance_score |-> r.score]>> \o ExtractFromEveryChunk(Tail(results), seen_docs)
            ELSE ExtractFromEveryChunk(Tail(results), seen_docs)

\* _extract_document_info, lines 164-180
RECURSIVE ExtractFrom(_, _)
ExtractFrom(results, seen_docs) ==
    IF results = <<>> THEN <<>>
    ELSE LET r == Head(results)
             id == r.chunk.document_id
         IN IF id \notin seen_docs /\ id \in DocIds
            THEN <<[id |-> id, relevance_score |-> r.score]>> \o ExtractFrom(Tail(results), seen_docs \cup {id})
            ELSE ExtractFrom(Tail(results), seen_docs)

ExtractDocumentInfo(results) == ExtractFrom(results, {})

\* _generate_response, lines 124-135: the message list sent to the backend
SentMessages(m, h) == <<[role |-> "system", content |-> "system_prompt"]>> \o h \o <<UserTurn(m)>>

\* chunks_used, line 85
ChunksUsed(results) == [i \in 1..(IF Len(results) < 3 THEN Len(results) ELSE 3) |-> results[i].chunk.text_content]

-----------------------------------------------------------------------------
(* routes.py *)

\* get_secure_session_data, lines 42-47
NewSession == [api_key |-> FALSE, chat_history |-> <<>>]

NoDocuments == [id \in {} |-> [processed |-> FALSE, chunks |-> <<>>]]

\* the fields of a response; each handler fills the ones it produces
NoResp ==
    [op |-> "none", success |-> FALSE, message |-> "empty", searched |-> FALSE, top_k |-> 0,
     retrieved |-> <<>>, results |-> <<>>, prior_chunks_used |-> <<>>, chunks_used |-> <<>>,
     context_used |-> FALSE, context_sources |-> <<>>, referenced_documents |-> <<>>,
     sent |-> <<>>, history |-> <<>>, document_id |-> 0, refresh |-> "none", fault |-> "none",
     arg |-> <<>>, ret |-> <<>>]

\* the store with Document id inserted or overwritten
WithDocument(id, doc) == [x \in DocIds \cup {id} |-> IF x = id THEN doc ELSE documents[x]]
WithoutDocument(id) == [x \in DocIds \ {id} |-> documents[x]]

\* the clean-up of process_pdf, lines 54-59: delete the Document and commit.  After a
\* commit that failed in this request the session refuses further work until
\* rollback() is called, so delete/commit raise and `except: pass` swallows it.
CleanUpDeletes(session_usable) == session_usable

\* DocumentProcessor.process_pdf, lines 21-60, for an upload that leaves the chunk
\* texts cs when nothing fails.  fault names the step that raises:
\*   "commit_document" line 35, "extract" line 38, "commit_chunks" line 114,
\*   "commit_processed" line 46.
\* The result is <<the Document table afterwards, the id or 0 when it raised>>.
ProcessPdf(cs, fault) ==
    LET id == next_id
    IN CASE fault = "commit_document" -> <<documents, 0>>
         [] fault = "extract" ->
                <<IF CleanUpDeletes(TRUE) THEN documents
                  ELSE WithDocument(id, [processed |-> FALSE, chunks |-> <<>>]), 0>>
         [] fault = "commit_chunks" ->
                <<IF CleanUpDeletes(FALSE) THEN documents
                  ELSE WithDocument(id, [processed |-> FALSE, chunks |-> <<>>]), 0>>
         [] fault = "commit_processed" ->
                <<IF CleanUpDeletes(FALSE) THEN documents
                  ELSE WithDocument(id, [processed |-> FALSE, chunks |-> cs]), 0>>
         [] OTHER -> <<WithDocument(id, [processed |-> TRUE, chunks |-> cs]), id>>

UploadFaults == {"none", "rejected", "commit_document", "extract", "commit_chunks", "commit_processed"}

\* upload_document, lines 67-107
UploadDocument(cs, fault, query_ok) ==
    /\ pc = "idle"
    /\ next_id <= MaxUploads
    /\ IF fault = "rejected"
       THEN \* lines 71-83: no file, no name, not a PDF, too large
            /\ resp' = [NoResp EXCEPT !.op = "upload", !.fault = fault]
            /\ UNCHANGED <<documents, next_id, vector_search, last_refresh>>
       ELSE LET done == ProcessPdf(cs, fault)
            IN /\ documents' = done[1]
               /\ next_id' = IF fault = "commit_document" THEN next_id ELSE next_id + 1
               /\ IF done[2] = 0
                  THEN /\ resp' = [NoResp EXCEPT !.op = "upload", !.fault = fault, !.document_id = next_id]
                       /\ UNCHANGED <<vector_search, last_refresh>>
                  ELSE LET r == RefreshIndex(vector_search, done[1], query_ok)
                       IN /\ vector_search' = r[1]
                          /\ last_refresh' = r[2]
                          /\ resp' = [NoResp EXCEPT !.op = "upload", !.success = (r[2] # "fit_raised"),
                                                    !.document_id = done[2], !.refresh = r[2]]
    /\ UNCHANGED <<chat_log, session, turns, chunkVars, localVars>>

DeleteFaults == {"none", "remove", "commit"}

\* delete_document, lines 122-146.  fault: os.remove (line 130) or the commit
\* (line 134) raises.
DeleteDocument(document_id, fault, query_ok) ==
    /\ pc = "idle"
    /\ IF document_id \notin DocIds \/ fault # "none"
       THEN \* get_or_404 aborts, or the exception is caught at line 144
            /\ resp' = [NoResp EXCEPT !.op = "delete", !.document_id = document_id, !.fault = fault]
            /\ UNCHANGED <<documents, vector_search, last_refresh>>
       ELSE LET docs == WithoutDocument(document_id)
                r == RefreshIndex(vector_search, docs, query_ok)
            IN /\ documents' = docs
               /\ vector_search' = r[1]
               /\ last_refresh' = r[2]
               /\ resp' = [NoResp EXCEPT !.op = "delete", !.success = (r[2] # "fit_raised"),
                                         !.document_id = document_id, !.refresh = r[2]]
    /\ UNCHANGED <<next_id, chat_log, session, turns, chunkVars, localVars>>

\* refresh_index, lines 331-340
RefreshIndexRoute(query_ok) ==
    /\ pc = "idle"
    /\ LET r == RefreshIndex(vector_search, documents, query_ok)
       IN /\ vector_search' = r[1]
          /\ last_refresh' = r[2]
          /\ resp' = [NoResp EXCEPT !.op = "refresh", !.success = (r[2] # "fit_raised"), !.refresh = r[2]]
    /\ UNCHANGED <<documents, next_id, chat_log, session, turns, chunkVars, localVars>>

\* a call of VectorSearchEngine.search on the shared engine
SearchCall(terms, top_k) ==
    /\ pc = "idle"
    /\ \E found \in Search(vector_search, terms, top_k) :
          resp' = [NoResp EXCEPT !.op = "search", !.success = TRUE, !.searched = TRUE,
                                 !.top_k = top_k, !.retrieved = found, !.results = found]
    /\ UNCHANGED <<documents, next_id, chat_log, vector_search, last_refresh, session, turns, chunkVars, localVars>>

\* test_openrouter, lines 240-266
TestOpenrouter(ok) ==
    /\ pc = "idle"
    /\ session' = IF ok THEN [session EXCEPT !.api_key = TRUE] ELSE session
    /\ resp' = [NoResp EXCEPT !.op = "test_openrouter", !.success = ok]
    /\ UNCHANGED <<documents, next_id, chat_log, vector_search, last_refresh, turns, chunkVars, localVars>>

\* clear_chat, lines 301-313
ClearChat ==
    /\ pc = "idle"
    /\ session' = [session EXCEPT !.chat_history = <<>>]
    /\ resp' = [NoResp EXCEPT !.op = "clear_chat", !.success = TRUE]
    /\ UNCHANGED <<documents, next_id, chat_log, vector_search, last_refresh, turns, chunkVars, localVars>>

\* clear_session, lines 286-299
ClearSession ==
    /\ pc = "idle"
    /\ session' = NewSession
    /\ resp' = [NoResp EXCEPT !.op = "clear_session", !.success = TRUE]
    /\ UNCHANGED <<documents, next_id, chat_log, vector_search, last_refresh, turns, chunkVars, localVars>>

\* chunks_used of the previous response, when that was a successful chat turn: what
\* the client holds of the turn before
PriorChunksUsed == IF resp.op = "chat" /\ resp.success THEN resp.chunks_used ELSE <<>>

\* chat, lines 193-197: chat_with_rag is called with message, conversation_history
\* and model only, so its parameter last_chunks_used keeps the default None
LastChunksUsedArg(previous) == <<>>

\* chat_with_rag, lines 58-61: the result set after the continuity step
RelevantChunks(m, found, last_chunks_used) ==
    IF IsAmbiguousFollowup(m) /\ last_chunks_used # <<>>
    THEN MergeWithPreviousContext(found, last_chunks_used)
    ELSE found

\* RemoveUserTurn without the pop
RemoveUserTurnKeeps(h) == h

\* chat, lines 229-232: undo the tentative user turn
RemoveUserTurn(h) ==
    IF h # <<>> /\ h[Len(h)].role = "user" THEN SubSeq(h, 1, Len(h) - 1) ELSE h

\* lines 208-225: the two ChatHistory rows of a turn (no handler reads the table
\* back, so a row is modelled by its role)
LogRows == <<"user", "assistant">>

\* chat, line 176: `if not secure_data['api_key']`
HasApiKeyAlways(s) == TRUE
HasApiKey(s) == s.api_key

\* chat, lines 148-238.  gen: the outcome of the generation call ("ok", or "error"
\* for a transport error, a timeout or a malformed reply: _generate_response
\* raises); log_ok: the commit of line 225 succeeds.
Chat(m, gen, log_ok) ==
    /\ pc = "idle"
    /\ turns < MaxChats
    /\ IF m.empty
       THEN \* lines 155-156
            /\ resp' = [NoResp EXCEPT !.op = "chat", !.message = m.id, !.fault = "no_message"]
            /\ UNCHANGED <<session, chat_log, turns>>
       ELSE IF ~m.automotive
       THEN \* lines 159-170
            /\ resp' = [NoResp EXCEPT !.op = "chat", !.message = m.id, !.success = TRUE, !.fault = "filtered"]
            /\ UNCHANGED <<session, chat_log, turns>>
       ELSE IF ~HasApiKey(session)
       THEN \* lines 176-177
            /\ resp' = [NoResp EXCEPT !.op = "chat", !.message = m.id, !.fault = "no_api_key"]
            /\ UNCHANGED <<session, chat_log, turns>>
       ELSE LET appended == Append(session.chat_history, UserTurn(m))
                history == IF Len(appended) > MaxHistory THEN LastN(appended, MaxHistory) ELSE appended
            IN \E query \in BuildEnhancedSearchQuery(m, history) :
               \E found \in Search(vector_search, query, max_chunks) :
                  LET results == RelevantChunks(m, found, LastChunksUsedArg(PriorChunksUsed))
                      referenced == ExtractDocumentInfo(results)
                      turn == [NoResp EXCEPT !.op = "chat", !.message = m.id, !.searched = TRUE,
                                             !.top_k = max_chunks, !.retrieved = found,
                                             !.results = results,
                                             !.prior_chunks_used = PriorChunksUsed,
                                             !.context_used = ~ContextIsEmpty(results),
                                             !.context_sources = ContextSources(results),
                                             !.sent = SentMessages(m, history),
                                             !.history = history]
                  IN IF gen = "ok"
                     THEN /\ session' = [session EXCEPT !.chat_history = Append(history, AssistantTurn)]
                          /\ turns' = turns + 1
                          /\ IF log_ok
                             THEN /\ chat_log' = chat_log \o LogRows
                                  /\ resp' = [turn EXCEPT !.success = TRUE,
                                                          !.referenced_documents = referenced,
                                                          !.chunks_used = ChunksUsed(results)]
                             ELSE \* the commit raises: caught at line 236
                                  /\ resp' = [turn EXCEPT !.fault = "log_commit"]
                                  /\ UNCHANGED chat_log
                     ELSE \* chat_with_rag returns success False, lines 89-94
                          /\ session' = [session EXCEPT !.chat_history = RemoveUserTurn(history)]
                          /\ resp' = [turn EXCEPT !.fault = "generation"]
                          /\ UNCHANGED <<chat_log, turns>>
    /\ UNCHANGED <<documents, next_id, vector_search, last_refresh, chunkVars, localVars>>

\* chat_with_rag, lines 41-94, called with the arguments message,
\* conversation_history and last_chunks_used.  gen: the outcome of the generation
\* call; every exception is caught at line 89.  (pc = "returned": the direct call
\* has returned.)
ChatWithRag(m, h, last_chunks_used, gen) ==
    /\ pc = "idle"
    /\ \E query \in BuildEnhancedSearchQuery(m, h) :
       \E found \in Search(vector_search, query, max_chunks) :
          LET results == RelevantChunks(m, found, last_chunks_used)
              call == [NoResp EXCEPT !.op = "chat_with_rag", !.message = m.id, !.searched = TRUE,
                                     !.top_k = max_chunks, !.retrieved = found,
                                     !.results = results,
                                     !.prior_chunks_used = last_chunks_used,
                                     !.context_used = ~ContextIsEmpty(results),
                                     !.context_sources = ContextSources(results),
                                     !.sent = SentMessages(m, h),
                                     !.history = h]
          IN resp' = IF gen = "ok"
                     THEN [call EXCEPT !.success = TRUE,
                                       !.referenced_documents = ExtractDocumentInfo(results),
                                       !.chunks_used = ChunksUsed(results)]
                     ELSE [call EXCEPT !.fault = "generation"]
    /\ pc' = "returned"
    /\ UNCHANGED <<documents, next_id, chat_log, vector_search, last_refresh, session, turns, chunkerVars, localVars>>

\* a call of _extract_document_info(relevant_chunks)
ExtractDocumentInfoCall(results) ==
    /\ pc = "idle"
    /\ resp' = [NoResp EXCEPT !.op = "extract_document_info", !.success = TRUE,
                              !.arg = results, !.ret = ExtractDocumentInfo(results)]
    /\ pc' = "returned"
    /\ UNCHANGED <<documents, next_id, chat_log, vector_search, last_refresh, session, turns, chunkerVars, localVars>>

\* a call of _is_ambiguous_followup(message)
IsAmbiguousFollowupCall(m) ==
    /\ pc = "idle"
    /\ resp' = [NoResp EXCEPT !.op = "is_ambiguous_followup", !.success = TRUE,
                              !.arg = m, !.ret = IsAmbiguousFollowup(m)]
    /\ pc' = "returned"
    /\ UNCHANGED <<documents, next_id, chat_log, vector_search, last_refresh, session, turns, chunkerVars, localVars>>

\* a call of _build_enhanced_search_query(current_message, conversation_history)
BuildEnhancedSearchQueryCall(m, h) ==
    /\ pc = "idle"
    /\ \E q \in EnhancedQueryTexts(m, h) :
          resp' = [NoResp EXCEPT !.op = "build_enhanced_search_query", !.success = TRUE,
                                 !.message = m.id, !.history = h, !.ret = q]
    /\ pc' = "returned"
    /\ UNCHANGED <<documents, next_id, chat_log, vector_search, last_refresh, session, turns, chunkerVars, localVars>>

-----------------------------------------------------------------------------
(* Request threads on the shared engine *)

(* get_vector_search() hands the one module-level VectorSearchEngine to every
   request, and the server answers requests on separate threads without a lock.
   A thread runs one call, refresh_index or search, a statement at a time; each
   step below reads or writes one attribute of the engine (the fit of line 189 and
   the transform of line 200 are taken as single steps). *)

Threads == {1, 2}

IdleThread ==
    [op |-> "idle", pc |-> "idle", outcome |-> "none",
     terms |-> {},              \* search: the query
     queried |-> <<>>,          \* refresh_index: the result of the store query
     texts |-> <<>>,            \* refresh_index: local `texts`
     matrix |-> <<>>,           \* refresh_index: the value of fit_transform(texts)
     vocabulary_read |-> {},    \* search: the vocabulary of the vectorizer used in line 200
     matrix_read |-> <<>>,      \* search: the matrix used in line 203
     chunks_read |-> <<>>,      \* search: the chunk list indexed in line 211
     results |-> <<>>]

Done(t, how) == [threads EXCEPT ![t].pc = "done", ![t].outcome = how]

concFrame == <<chunkVars, pdf, text_chunks, document, chat_log, last_refresh, session, resp, turns>>

\* a request thread enters refresh_index
StartRefreshIndex(t) ==
    /\ threads[t].pc = "idle"
    /\ threads' = [threads EXCEPT ![t].op = "refresh_index", ![t].pc = "query"]
    /\ UNCHANGED <<documents, next_id, vector_search, concFrame>>

\* a request thread enters search(query)
StartSearch(t, terms) ==
    /\ threads[t].pc = "idle"
    /\ threads' = [threads EXCEPT ![t].op = "search", ![t].pc = "guard", ![t].terms = terms]
    /\ UNCHANGED <<documents, next_id, vector_search, concFrame>>

\* lines 163-175: self.chunks is assigned the query result, or [] when the query raises
RefreshQuery(t, query_ok) ==
    /\ threads[t].pc = "query"
    /\ IF ~query_ok
       THEN /\ vector_search' = [vector_search EXCEPT !.chunks = <<>>]
            /\ threads' = Done(t, "query_failed")
       ELSE LET cs == ProcessedChunks(documents)
            IN /\ vector_search' = [vector_search EXCEPT !.chunks = cs]
               /\ threads' = IF cs = <<>>
                             THEN [Done(t, "empty") EXCEPT ![t].queried = cs]
                             ELSE [threads EXCEPT ![t].queried = cs, ![t].pc = "texts"]
    /\ UNCHANGED <<documents, next_id, concFrame>>

\* line 178: texts are taken from self.chunks as it is now
RefreshTexts(t) ==
    /\ threads[t].pc = "texts"
    /\ threads' = [threads EXCEPT ![t].texts = vector_search.chunks, ![t].pc = "vectorizer"]
    /\ UNCHANGED <<documents, next_id, vector_search, concFrame>>

\* lines 181-187: self.vectorizer = TfidfVectorizer(...)
RefreshVectorizer(t) ==
    /\ threads[t].pc = "vectorizer"
    /\ vector_search' = [vector_search EXCEPT !.vectorizer = "unfitted", !.vocabulary = {}]
    /\ threads' = [threads EXCEPT ![t].pc = "fit"]
    /\ UNCHANGED <<documents, next_id, concFrame>>

\* line 189, right-hand side: the vectorizer self.vectorizer names now is fitted on
\* the thread's texts; an exception leaves the call and the vectorizer as it was
RefreshFit(t) ==
    /\ threads[t].pc = "fit"
    /\ IF FitRaises(threads[t].texts)
       THEN /\ threads' = Done(t, "fit_raised")
            /\ UNCHANGED vector_search
       ELSE /\ vector_search' = [vector_search EXCEPT !.vectorizer = "fitted",
                                                      !.vocabulary = Vocabulary(threads[t].texts)]
            /\ threads' = [threads EXCEPT ![t].matrix = threads[t].texts, ![t].pc = "assign"]
    /\ UNCHANGED <<documents, next_id, concFrame>>

\* line 189, the assignment to self.document_vectors
RefreshAssign(t) ==
    /\ threads[t].pc = "assign"
    /\ vector_search' = [vector_search EXCEPT !.document_vectors = threads[t].matrix]
    /\ threads' = Done(t, "built")
    /\ UNCHANGED <<documents, next_id, concFrame>>

\* lines 194-196
SearchGuard(t) ==
    /\ threads[t].pc = "guard"
    /\ threads' = IF vector_search.vectorizer = "None" \/ vector_search.chunks = <<>>
                  THEN Done(t, "not_initialized")
                  ELSE [threads EXCEPT ![t].pc = "transform"]
    /\ UNCHANGED <<documents, next_id, vector_search, concFrame>>

\* line 200: transform raises NotFittedError on a vectorizer that was not fitted
SearchTransform(t) ==
    /\ threads[t].pc = "transform"
    /\ threads' = IF vector_search.vectorizer # "fitted"
                  THEN Done(t, "raised")
                  ELSE [threads EXCEPT ![t].vocabulary_read = vector_search.vocabulary,
                                       ![t].pc = "similarity"]
    /\ UNCHANGED <<documents, next_id, vector_search, concFrame>>

\* line 203: cosine_similarity raises when there is no matrix or when the matrix
\* has another number of columns than the query vector
SearchSimilarity(t) ==
    /\ threads[t].pc = "similarity"
    /\ LET m == vector_search.document_vectors
       IN threads' = IF m = NoMatrix
                     THEN Done(t, "raised")
                     ELSE IF Cardinality(Vocabulary(m)) # Cardinality(threads[t].vocabulary_read)
                          THEN Done(t, "raised")
                          ELSE [threads EXCEPT ![t].matrix_read = m, ![t].pc = "collect"]
    /\ UNCHANGED <<documents, next_id, vector_search, concFrame>>

\* the values line 203 can yield: the similarities of the query with the rows when
\* the query vector and the matrix are over the same vocabulary; otherwise the
\* columns of the two name different terms and any row can get any score
ReadSimilarities(vocabulary, m, terms) ==
    IF vocabulary = Vocabulary(m)
    THEN Similarities([NewEngine EXCEPT !.vocabulary = vocabulary, !.document_vectors = m], terms)
    ELSE [DOMAIN m -> {0} \cup PositiveScores]

\* lines 206-216: the loop indexes self.chunks as it is now
SearchCollect(t) ==
    /\ threads[t].pc = "collect"
    /\ \E sim \in ReadSimilarities(threads[t].vocabulary_read, threads[t].matrix_read, threads[t].terms) :
       \E order \in Argsort(sim) :
          LET r == CollectResults(vector_search, sim, TopIndices(order, max_chunks))
          IN threads' = [Done(t, IF r.err THEN "raised" ELSE "returned")
                            EXCEPT ![t].chunks_read = vector_search.chunks,
                                   ![t].results = IF r.err THEN <<>> ELSE r.rows]
    /\ UNCHANGED <<documents, next_id, vector_search, concFrame>>

\* another request commits the upload of a second document
CommitUpload ==
    /\ next_id = 2
    /\ documents' = WithDocument(next_id, [processed |-> TRUE, chunks |-> <<"oil", "stop">>])
    /\ next_id' = next_id + 1
    /\ UNCHANGED <<vector_search, threads, concFrame>>

\* another request commits the deletion of a document
CommitDelete(id) ==
    /\ id \in DocIds
    /\ documents' = WithoutDocument(id)
    /\ UNCHANGED <<next_id, vector_search, threads, concFrame>>

-----------------------------------------------------------------------------
(* Specifications *)

InitChunker ==
    /\ text = EmptyStr
    /\ start = 0
    /\ chunks = <<>>
    /\ spans = <<>>
    /\ seen = {}
    /\ chunk_index = 0
    /\ added = <<>>
    /\ stored = <<>>

\* no request thread is running
NoThreads == <<>>

\* no process_pdf call and no request thread is under way
InitLocal ==
    /\ pdf = <<>>
    /\ text_chunks = <<>>
    /\ document = NoDocument
    /\ threads = NoThreads

InitSys ==
    /\ documents = NoDocuments
    /\ next_id = 1
    /\ chat_log = <<>>
    /\ vector_search = NewEngine
    /\ last_refresh = "never"
    /\ session = NewSession
    /\ resp = NoResp
    /\ turns = 0
    /\ InitLocal

\* a direct call of _split_text_into_chunks(text)
InitSplit ==
    /\ InitSys
    /\ text \in SplitTexts
    /\ start = 0
    /\ chunks = <<>>
    /\ spans = <<>>
    /\ seen = {}
    /\ pc = "split_loop"
    /\ pages = <<>>
    /\ chunk_index = 0
    /\ added = <<>>
    /\ stored = <<>>

\* the direct call has returned `chunks`
SplitReturned ==
    /\ pc = "split_return"
    /\ pages = <<>>
    /\ pc' = "split_done"
    /\ UNCHANGED <<text, start, chunks, spans, seen, pages, chunk_index, added, stored, sysVars, localVars>>

NextSplit == SplitStep \/ SplitDiverges \/ SplitReturned

SpecSplit == InitSplit /\ [][NextSplit]_vars

\* a call of _create_chunks(document, text_pages)
InitCreate ==
    /\ InitSys
    /\ InitChunker
    /\ pages \in PageLists
    /\ pc = "pages_loop"

NextCreate == CreateNextPage \/ SplitStep \/ SplitDiverges \/ CreateAddPage \/ CreateCommit

SpecCreate == InitCreate /\ [][NextCreate]_vars

\* the running application
Init ==
    /\ InitSys
    /\ InitChunker
    /\ pages = <<>>
    /\ pc = "idle"

\* the record store and the shared index, every fault injected, with direct calls
\* of VectorSearchEngine.search
Queries == {{}, {"brake"}, {"oil"}, {"brake", "oil"}}

NextIndex ==
    \/ \E cs \in DocChunkLists, fault \in UploadFaults, query_ok \in BOOLEAN :
          UploadDocument(cs, fault, query_ok)
    \/ \E id \in 1..MaxUploads, fault \in DeleteFaults, query_ok \in BOOLEAN :
          DeleteDocument(id, fault, query_ok)
    \/ \E query_ok \in BOOLEAN : RefreshIndexRoute(query_ok)
    \/ \E terms \in Queries, top_k \in 0..MaxTopK : SearchCall(terms, top_k)

SpecIndex == Init /\ [][NextIndex]_vars

\* the routes of one session: uploads of "brake"/"oil" chunks, extraction and chunk
\* persistence faults, a failing store query in refresh_index, and chat
AppChunkLists == SeqsUpTo({"brake", "oil"}, MaxChunksPerDoc)
AppFaults == {"none", "rejected", "extract", "commit_chunks"}

Next ==
    \/ \E cs \in AppChunkLists, fault \in AppFaults : UploadDocument(cs, fault, TRUE)
    \/ \E id \in 1..MaxUploads : DeleteDocument(id, "none", TRUE)
    \/ \E query_ok \in BOOLEAN : RefreshIndexRoute(query_ok)
    \/ \E ok \in BOOLEAN : TestOpenrouter(ok)
    \/ ClearChat
    \/ ClearSession
    \/ \E m \in Messages, gen \in {"ok", "error"}, log_ok \in BOOLEAN : Chat(m, gen, log_ok)

Spec == Init /\ [][Next]_vars

-----------------------------------------------------------------------------
(* A call of process_pdf(file_path, ...) on a file of up to MaxPages pages *)

\* 'Replace brake pads every 20,000 miles'
BrakePadsLine == [len |-> 37, sp |-> {7, 13, 18, 24, 31}, junk |-> 0]

\* a line of n characters without spaces, the last j of them outside the allowed set
PlainLine(n, j) == [len |-> n, sp |-> {}, junk |-> j]

\* filler: k lines of n characters each
FillerLineLens == {3, ShortLineLen - 1}
FillerLineCounts == {1, 2, 6}
FillerPage(k, n) == [readable |-> TRUE, lines |-> [i \in 1..k |-> PlainLine(n, 0)]]

BrakePadsPage == [readable |-> TRUE, lines |-> <<BrakePadsLine>>]

RawPages ==
    {BrakePadsPage}
    \cup {FillerPage(k, n) : k \in FillerLineCounts, n \in FillerLineLens}
    \cup {[readable |-> FALSE, lines |-> <<>>],                       \* extract_text() raises
          [readable |-> TRUE, lines |-> <<>>],                        \* a blank page
          [readable |-> TRUE, lines |-> <<PlainLine(3, 3)>>],         \* symbols only
          [readable |-> TRUE, lines |-> <<PlainLine(MinChunkLen + 10, 0)>>],
          [readable |-> TRUE,                                         \* a page the chunker loops on
           lines |-> <<[len |-> chunk_size + chunk_overlap + 101,
                        sp |-> {chunk_overlap + 100}, junk |-> 0]>>]}

PdfFiles == SeqsUpTo(RawPages, MaxPages)

InitIngest ==
    /\ InitChunker
    /\ pages = <<>>
    /\ pc = "process_pdf"
    /\ documents = NoDocuments
    /\ next_id = 1
    /\ chat_log = <<>>
    /\ vector_search = NewEngine
    /\ last_refresh = "never"
    /\ session = NewSession
    /\ resp = NoResp
    /\ turns = 0
    /\ pdf \in PdfFiles
    /\ text_chunks = <<>>
    /\ document = NoDocument
    /\ threads = NoThreads

NextIngest ==
    \/ ProcessPdfBegin
    \/ CreateNextPage
    \/ SplitStep
    \/ SplitDiverges
    \/ CreateAddPage
    \/ CreateCommit
    \/ ProcessPdfEnd

SpecIngest == InitIngest /\ [][NextIngest]_vars

\* one session in mid-conversation: k answered "brake_q" turns behind it (up to a
\* full buffer), the store empty or holding one indexed two-chunk document, and a
\* failed test_openrouter as the last request
RECURSIVE Exchanges(_)
Exchanges(k) ==
    IF k = 0 THEN <<>>
    ELSE <<UserTurn(MessageOf("brake_q")), AssistantTurn>> \o Exchanges(k - 1)

RECURSIVE LogOf(_)
LogOf(k) == IF k = 0 THEN <<>> ELSE LogRows \o LogOf(k - 1)

IndexedStores ==
    {NoDocuments, [id \in {1} |-> [processed |-> TRUE, chunks |-> <<"brake", "oil">>]]}

InitChat ==
    /\ InitChunker
    /\ pages = <<>>
    /\ pc = "idle"
    /\ documents \in IndexedStores
    /\ next_id = Cardinality(DOMAIN documents) + 1
    /\ vector_search = RefreshIndex(NewEngine, documents, TRUE)[1]
    /\ last_refresh = RefreshIndex(NewEngine, documents, TRUE)[2]
    /\ \E k \in 0..(MaxHistory \div 2) :
          /\ session = [api_key |-> k > 0, chat_history |-> Exchanges(k)]
          /\ chat_log = LogOf(k)
    /\ resp = [NoResp EXCEPT !.op = "test_openrouter"]
    /\ turns = 0
    /\ InitLocal

NextChat ==
    \/ \E ok \in BOOLEAN : TestOpenrouter(ok)
    \/ ClearChat
    \/ ClearSession
    \/ \E m \in Messages, gen \in {"ok", "error"}, log_ok \in BOOLEAN : Chat(m, gen, log_ok)

SpecChat == InitChat /\ [][NextChat]_vars

\* direct calls of RAGClient's methods over an indexed store

\* stores two uploads can leave: none, one document, two documents (with a common
\* text, and without), and the second document after the first was deleted
RagStores ==
    {NoDocuments,
     [id \in {1} |-> [processed |-> TRUE, chunks |-> <<"brake", "oil">>]],
     [id \in {1, 2} |-> [processed |-> TRUE,
                         chunks |-> IF id = 1 THEN <<"brake", "oil">> ELSE <<"brake", "brake">>]],
     [id \in {1, 2} |-> [processed |-> TRUE,
                         chunks |-> IF id = 1 THEN <<"brake", "stop">> ELSE <<"oil", "stop">>]],
     [id \in {2} |-> [processed |-> TRUE, chunks |-> <<"brake", "oil">>]]}

\* conversation_history arguments: absent or empty, one turn, and longer ones
RagHistories ==
    {<<>>,
     <<UserTurn(MessageOf("brake_q"))>>,
     <<AssistantTurn>>,
     <<UserTurn(MessageOf("brake_q")), AssistantTurn>>,
     <<UserTurn(MessageOf("brake_q")), AssistantTurn, UserTurn(MessageOf("more"))>>,
     <<UserTurn(MessageOf("oil_q")), AssistantTurn, UserTurn(MessageOf("more"))>>,
     <<AssistantTurn, UserTurn(MessageOf("brake_q")), AssistantTurn, UserTurn(MessageOf("oil_q")),
       AssistantTurn, UserTurn(MessageOf("more"))>>}

\* last_chunks_used arguments: None or a list of chunk texts
LastChunkLists == {<<>>, <<"oil">>, <<"oil", "brake">>, <<"brake", "oil", "stop">>}

\* relevant_chunks arguments: lists of (chunk, score), also unsorted and with chunks
\* of a Document that does not exist
ResultRows ==
    {[chunk |-> [document_id |-> d, chunk_index |-> 0, text_content |-> "brake"],
      score |-> sc, carried |-> FALSE] : d \in 1..3, sc \in {MinSimilarity + 1, MergeScore}}
ResultLists == SeqsUpTo(ResultRows, 3)

\* message arguments of _is_ambiguous_followup: lengths around the threshold, with
\* and without a phrase, with up to two 'İ'
FollowupTexts ==
    {[trimmed_len |-> n, dotted_capital_i |-> d, has_phrase |-> ph] :
        n \in {0, 2, 4, ShortMessageLen - 3, ShortMessageLen - 1, ShortMessageLen, ShortMessageLen + 1, 40},
        d \in 0..2, ph \in BOOLEAN}
    \ {t \in [trimmed_len : 0..40, dotted_capital_i : 0..2, has_phrase : BOOLEAN] :
          t.dotted_capital_i > t.trimmed_len \/ (t.has_phrase /\ t.trimmed_len < 4)}

InitRag ==
    /\ InitChunker
    /\ pages = <<>>
    /\ pc = "idle"
    /\ documents \in RagStores
    /\ next_id = 3
    /\ vector_search = RefreshIndex(NewEngine, documents, TRUE)[1]
    /\ last_refresh = RefreshIndex(NewEngine, documents, TRUE)[2]
    /\ session = NewSession
    /\ chat_log = <<>>
    /\ resp = NoResp
    /\ turns = 0
    /\ InitLocal

NextRag ==
    \/ \E m \in Messages, h \in RagHistories, last_chunks_used \in LastChunkLists, gen \in {"ok", "error"} :
          ChatWithRag(m, h, last_chunks_used, gen)
    \/ \E results \in ResultLists : ExtractDocumentInfoCall(results)
    \/ \E m \in FollowupTexts : IsAmbiguousFollowupCall(m)
    \/ \E m \in Messages, h \in RagHistories : BuildEnhancedSearchQueryCall(m, h)

SpecRag == InitRag /\ [][NextRag]_vars

-----------------------------------------------------------------------------
(* Two request threads on an engine that was built over one document *)

ConcStore == [id \in {1} |-> [processed |-> TRUE, chunks |-> <<"brake", "stop">>]]
ConcQueries == {{"brake"}, {"oil"}}

InitConc ==
    /\ InitChunker
    /\ pages = <<>>
    /\ pc = "idle"
    /\ documents = ConcStore
    /\ next_id = 2
    /\ vector_search = RefreshIndex(NewEngine, ConcStore, TRUE)[1]
    /\ last_refresh = RefreshIndex(NewEngine, ConcStore, TRUE)[2]
    /\ session = NewSession
    /\ chat_log = <<>>
    /\ resp = NoResp
    /\ turns = 0
    /\ pdf = <<>>
    /\ text_chunks = <<>>
    /\ document = NoDocument
    /\ threads = [t \in Threads |-> IdleThread]

NextConc ==
    \/ CommitUpload
    \/ \E id \in 1..MaxUploads : CommitDelete(id)
    \/ \E t \in Threads : StartRefreshIndex(t)
    \/ \E t \in Threads, terms \in ConcQueries : StartSearch(t, terms)
    \/ \E t \in Threads, query_ok \in BOOLEAN : RefreshQuery(t, query_ok)
    \/ \E t \in Threads : RefreshTexts(t)
    \/ \E t \in Threads : RefreshVectorizer(t)
    \/ \E t \in Threads : RefreshFit(t)
    \/ \E t \in Threads : RefreshAssign(t)
    \/ \E t \in Threads : SearchGuard(t)
    \/ \E t \in Threads : SearchTransform(t)
    \/ \E t \in Threads : SearchSimilarity(t)
    \/ \E t \in Threads : SearchCollect(t)

SpecConc == InitConc /\ [][NextConc]_vars

-----------------------------------------------------------------------------
(* Properties of the chunker *)

\* the chunks joined after dropping from each the region the chunks before it
\* have covered (up to position `covered` of the input)
RECURSIVE Reconstruct(_, _, _)
Reconstruct(cs, sps, covered) ==
    IF cs = <<>> THEN EmptyStr
    ELSE LET lo == Head(sps)[1]
             drop == IF covered > lo THEN covered - lo ELSE 0
         IN Concat(Slice(Head(cs), drop, Head(cs).len),
                   Reconstruct(Tail(cs), Tail(sps), Head(sps)[2]))

\* C1: for every input text the loop of _split_text_into_chunks terminates: the
\* loop head is never reached again with a start offset it has already had (from
\* which the same iterations would repeat for ever).
C1_SplitTerminates == pc # "split_diverged"

\* C2: whenever _split_text_into_chunks returns, every chunk is a non-empty
\* contiguous substring text[lo:hi] of the input, the chunks are listed by
\* increasing lo with no gap between one chunk's end and the next one's start,
\* every character position lies in some chunk, joining the chunks without
\* their overlapping regions gives the input back exactly, and an empty input
\* yields no chunks.
C2_ChunksCoverText ==
    pc = "split_done" =>
        /\ Len(spans) = Len(chunks)
        /\ \A i \in DOMAIN chunks :
              /\ 0 <= spans[i][1] /\ spans[i][1] < spans[i][2] /\ spans[i][2] <= text.len
              /\ chunks[i] = Slice(text, spans[i][1], spans[i][2])
        /\ \A i \in 1..(Len(chunks) - 1) :
              /\ spans[i][1] < spans[i + 1][1]
              /\ spans[i + 1][1] <= spans[i][2]
        /\ \A p \in 0..(text.len - 1) :
              \E i \in DOMAIN chunks : spans[i][1] <= p /\ p < spans[i][2]
        /\ Reconstruct(chunks, spans, 0) = text
        /\ (text.len = 0 => chunks = <<>>)

\* a call that returned three chunks, the second overlapping the first
C2_ThreeOverlappingChunks ==
    /\ pc = "split_done"
    /\ Len(chunks) >= 3
    /\ spans[2][1] < spans[1][2]
    /\ text.sp # {}

-----------------------------------------------------------------------------
(* Properties of _create_chunks *)

\* C3: no DocumentChunk whose trimmed text is shorter than the 50-character
\* threshold is stored for the document, and every stored chunk has non-empty
\* trimmed text.
C3_StoredChunksMeaningful ==
    \A i \in DOMAIN stored :
        /\ Strip(stored[i].text_content).len >= MinChunkLen
        /\ Strip(stored[i].text_content).len > 0

\* a committed call that stored a chunk and dropped one of the last page whose
\* untrimmed length is above the threshold
C3_DroppedAfterTrim ==
    /\ pc = "created"
    /\ stored # <<>>
    /\ \E i \in DOMAIN chunks : chunks[i].len > MinChunkLen /\ ~IsMeaningful(chunks[i])

-----------------------------------------------------------------------------
(* Properties of VectorSearchEngine and of the record store *)

\* the position of an indexed chunk in self.chunks
PositionOf(c) == CHOOSE k \in DOMAIN vector_search.chunks : vector_search.chunks[k] = c

\* C4: search returns at most top_k (chunk, score) pairs, every returned score is
\* at least 0.1, and the pairs are ordered by non-increasing score.
C4_SearchBoundedSorted ==
    resp.searched =>
        /\ Len(resp.retrieved) <= resp.top_k
        /\ \A i \in DOMAIN resp.retrieved : resp.retrieved[i].score >= MinSimilarity
        /\ \A i \in 1..(Len(resp.retrieved) - 1) :
              resp.retrieved[i].score >= resp.retrieved[i + 1].score

\* a search cut off by top_k, over more indexed chunks than top_k, whose first two
\* results differ in score
C4_CutOffByTopK ==
    /\ resp.op = "search"
    /\ resp.top_k >= 2
    /\ Len(resp.retrieved) = resp.top_k
    /\ Len(vector_search.chunks) > resp.top_k
    /\ resp.retrieved[1].score > resp.retrieved[2].score

\* C5, as stated: two returned chunks of equal similarity appear in the order of
\* their index positions, the smaller position first.
C5_TiesInIndexOrder ==
    resp.searched =>
        \A i, j \in DOMAIN resp.retrieved :
            (i < j /\ resp.retrieved[i].score = resp.retrieved[j].score)
                => PositionOf(resp.retrieved[i].chunk) < PositionOf(resp.retrieved[j].chunk)

\* C5, amended: the order of the results is fixed by the scores alone.  No indexed
\* chunk is returned twice and a chunk of strictly higher similarity comes first;
\* among chunks of equal similarity either index order can be returned.
C5_OrderedByScoreOnly ==
    resp.searched =>
        \A i, j \in DOMAIN resp.retrieved :
            i # j =>
                /\ resp.retrieved[i].chunk # resp.retrieved[j].chunk
                /\ (resp.retrieved[i].score > resp.retrieved[j].score => i < j)

\* a search that returned two chunks of equal similarity, the one at the larger
\* index position first
C5_TieLargerPositionFirst ==
    /\ resp.op = "search"
    /\ \E i, j \in DOMAIN resp.retrieved :
          /\ i < j
          /\ resp.retrieved[i].score = resp.retrieved[j].score
          /\ PositionOf(resp.retrieved[i].chunk) > PositionOf(resp.retrieved[j].chunk)

\* C6: when the index has never been built, or the last refresh_index found no
\* processed chunk, search returns the empty list for every query and top_k (and
\* raises nothing: an empty list is its only outcome).
C6_NoIndexNoResults ==
    last_refresh \in {"never", "empty"} =>
        /\ \A terms \in Queries, top_k \in 0..MaxTopK :
              Search(vector_search, terms, top_k) = {<<>>}
        /\ (resp.searched => resp.retrieved = <<>>)

\* a search after a refresh that found nothing, on an engine that had been built
\* before
C6_SearchAfterEmptyRefresh ==
    /\ last_refresh = "empty"
    /\ resp.op = "search"
    /\ vector_search.vectorizer = "fitted"

\* C9: when process_pdf raises, no Document and no chunk of that upload remains,
\* and no Document with processed = False is left in the store between requests.
C9_FailedUploadLeavesNothing ==
    /\ \A id \in DocIds : documents[id].processed
    /\ (resp.op = "upload" /\ resp.fault \in {"commit_document", "extract", "commit_chunks", "commit_processed"})
          => resp.document_id \notin DocIds

-----------------------------------------------------------------------------
(* Properties of the routes *)

\* the shared engine holds a fitted index over exactly the processed chunks of the
\* store
IndexCurrent ==
    /\ vector_search.chunks = ProcessedChunks(documents)
    /\ vector_search.chunks # <<>> =>
          /\ vector_search.vectorizer = "fitted"
          /\ vector_search.document_vectors = vector_search.chunks

\* C7: every request that adds or removes a Document has rebuilt the index when it
\* returns, every search of a chat request runs on an index built from exactly
\* the chunks of the processed Documents of the store, and no search result
\* refers to a chunk of a deleted Document.
C7_ChatSearchesCurrentIndex ==
    /\ (resp.op = "upload" /\ resp.fault = "none") => IndexCurrent
    /\ (resp.op = "delete" /\ resp.document_id \notin DocIds /\ resp.fault = "none") => IndexCurrent
    /\ (resp.op = "chat" /\ resp.searched) => IndexCurrent
    /\ resp.searched => \A i \in DOMAIN resp.retrieved : resp.retrieved[i].chunk.document_id \in DocIds

\* the conversation buffer does not end with a user turn
NoDanglingUserTurn(h) == h = <<>> \/ h[Len(h)].role # "user"

\* C8: a chat request whose generation step fails returns success = False, leaves
\* the buffer not ending with the user message of the turn and writes no
\* ChatHistory row; after every completed request the buffer does not end with an
\* unanswered user turn.
C8_FailedTurnLeavesNoTrace ==
    [][/\ NoDanglingUserTurn(session'.chat_history)
       /\ (resp'.op = "chat" /\ resp'.fault = "generation") =>
             /\ ~resp'.success
             /\ chat_log' = chat_log
             /\ Len(session'.chat_history) < Len(resp'.history)]_vars

\* a failed turn on a full buffer: the history was cut to the last 20 entries
\* (it then starts with an assistant turn) before the user turn was removed
C8_FailedOnFullBuffer ==
    /\ resp.op = "chat"
    /\ resp.fault = "generation"
    /\ Len(resp.history) = MaxHistory
    /\ resp.history[1].role = "assistant"
    /\ Len(session.chat_history) = MaxHistory - 1

\* C10: when the previous turn succeeded and returned chunks_used, and this turn's
\* message is an ambiguous follow-up whose retrieval gave fewer than 3 hits, the
\* result set is the retrieved hits followed by up to 2 of the previous turn's
\* chunks at score 0.5.
C10_FollowupCarriesPriorChunks ==
    (/\ resp.op = "chat"
     /\ resp.searched
     /\ IsAmbiguousFollowup(MessageOf(resp.message))
     /\ resp.prior_chunks_used # <<>>
     /\ Len(resp.retrieved) < 3)
    => LET prior == resp.prior_chunks_used
           n == IF Len(prior) < 2 THEN Len(prior) ELSE 2
           k == Len(resp.retrieved)
       IN /\ Len(resp.results) = k + n
          /\ SubSeq(resp.results, 1, k) = resp.retrieved
          /\ \A i \in 1..n :
                /\ resp.results[k + i].carried
                /\ resp.results[k + i].score = MergeScore
                /\ resp.results[k + i].chunk.text_content = prior[i]

\* C12, as stated: a chat request in a session without an API key returns an
\* error, and no search and no generation call is made.
C12_NoKeyChatIsError ==
    (resp.op = "chat" /\ ~session.api_key) =>
        /\ ~resp.success
        /\ ~resp.searched
        /\ resp.sent = <<>>

\* C12, amended: a chat request in a session without an API key makes no query
\* expansion, no search and no generation call and leaves the conversation
\* buffer and the ChatHistory log unchanged; it returns the missing-key error
\* when its message is non-empty and automotive (an empty message gets the
\* message-required error, a non-automotive message the filter reply with
\* success = True).
C12_NoKeyChatDoesNothing ==
    [][(resp'.op = "chat" /\ ~session.api_key) =>
          /\ ~resp'.searched
          /\ resp'.sent = <<>>
          /\ session' = session
          /\ chat_log' = chat_log
          /\ (~MessageOf(resp'.message).empty /\ MessageOf(resp'.message).automotive) =>
                (~resp'.success /\ resp'.fault = "no_api_key")
          /\ MessageOf(resp'.message).empty => ~resp'.success]_vars

\* a chat turned down for the missing key while the index holds chunks
C12_NoKeyOverBuiltIndex ==
    /\ resp.op = "chat"
    /\ resp.fault = "no_api_key"
    /\ vector_search.vectorizer = "fitted"
    /\ vector_search.chunks # <<>>

-----------------------------------------------------------------------------
(* Properties of RAGClient *)

\* the pseudo-chunk rows _merge_with_previous_context appends for the texts ts
CarriedRows(ts) ==
    [i \in 1..Len(ts) |->
        [chunk |-> [document_id |-> 1, chunk_index |-> -1, text_content |-> ts[i]],
         score |-> MergeScore, carried |-> TRUE]]

\* C11: in chat_with_rag the result set after the merge step is the retrieved
\* results, unchanged and in order, followed by the first min(2, n) of the n prior
\* chunk texts at score 0.5, exactly when the message is ambiguous, fewer than 3
\* results were retrieved and prior texts are given; otherwise it is the
\* retrieved results unchanged.
C11_MergeOnlyAppends ==
    resp.op = "chat_with_rag" =>
        LET prior == resp.prior_chunks_used
            n == IF Len(prior) < 2 THEN Len(prior) ELSE 2
            m == MessageOf(resp.message)
        IN IF (m.trimmed_len + m.dotted_capital_i < ShortMessageLen \/ m.has_phrase)
              /\ Len(resp.retrieved) < 3 /\ prior # <<>>
           THEN resp.results = resp.retrieved \o CarriedRows(SubSeq(prior, 1, n))
           ELSE resp.results = resp.retrieved

\* an ambiguous call with three prior texts and one retrieved hit: two texts are
\* appended
C11_TwoOfThreeCarried ==
    /\ resp.op = "chat_with_rag"
    /\ Len(resp.prior_chunks_used) = 3
    /\ Len(resp.retrieved) = 1
    /\ Len(resp.results) = 3

\* an ambiguous call with prior texts and three retrieved hits: nothing is appended
C11_NothingCarriedAfterThreeHits ==
    /\ resp.op = "chat_with_rag"
    /\ resp.message = "more"
    /\ resp.prior_chunks_used # <<>>
    /\ Len(resp.retrieved) = 3
    /\ resp.results = resp.retrieved

\* C13: for every Document listed in referenced_documents of a successful turn,
\* relevance_score is the highest score among the chunks of that Document in the
\* turn's final result set (the merged one included).
C13_ReferencedScoreIsBest ==
    (resp.op \in {"chat", "chat_with_rag"} /\ resp.success) =>
        \A i \in DOMAIN resp.referenced_documents :
            LET e == resp.referenced_documents[i]
            IN \A k \in DOMAIN resp.results :
                  resp.results[k].chunk.document_id = e.id => resp.results[k].score <= e.relevance_score

\* the Documents of the rows rs that exist, in the order of their first occurrence
RECURSIVE FirstOccurrences(_, _)
FirstOccurrences(rs, k) ==
    IF k > Len(rs) THEN <<>>
    ELSE IF rs[k].chunk.document_id \in DocIds
            /\ \A j \in 1..(k - 1) : rs[j].chunk.document_id # rs[k].chunk.document_id
         THEN <<k>> \o FirstOccurrences(rs, k + 1)
         ELSE FirstOccurrences(rs, k + 1)

\* C14: _extract_document_info returns at most one entry per existing Document,
\* in the order in which the Documents first occur in the list, each with the
\* score of the first chunk of its Document; chunks of a Document that does not
\* exist give no entry (and no error).
C14_FirstChunkPerDocument ==
    resp.op = "extract_document_info" =>
        LET first == FirstOccurrences(resp.arg, 1)
        IN /\ Len(resp.ret) = Len(first)
           /\ \A i \in DOMAIN resp.ret :
                 /\ resp.ret[i].id = resp.arg[first[i]].chunk.document_id
                 /\ resp.ret[i].relevance_score = resp.arg[first[i]].score
                 /\ resp.ret[i].id \in DocIds
           /\ \A i, j \in DOMAIN resp.ret : i # j => resp.ret[i].id # resp.ret[j].id

\* a list of three chunks: one of a missing Document first, then two of one
\* Document with the lower score first
C14_MissingThenRepeated ==
    /\ resp.op = "extract_document_info"
    /\ Len(resp.arg) = 3
    /\ resp.arg[1].chunk.document_id \notin DocIds
    /\ resp.arg[2].chunk.document_id = resp.arg[3].chunk.document_id
    /\ resp.arg[2].score < resp.arg[3].score
    /\ Len(resp.ret) = 1

\* C16: _is_ambiguous_followup(message) is true if and only if the trimmed
\* message is shorter than 15 characters or its lower-cased text contains one of
\* the phrases.
C16_AmbiguousIffShortOrPhrase ==
    resp.op = "is_ambiguous_followup" =>
        (resp.ret <=> (resp.arg.trimmed_len < ShortMessageLen \/ resp.arg.has_phrase))

\* C17: _build_enhanced_search_query returns the current message unchanged when
\* the conversation history is absent or holds fewer than 2 turns.
C17_ShortHistoryKeepsQuery ==
    (resp.op = "build_enhanced_search_query" /\ Len(resp.history) < 2) =>
        resp.ret = [message |-> resp.message, appended |-> {}]

\* a call with a history of one user turn, whose words are not appended
C17_OneUserTurn ==
    /\ resp.op = "build_enhanced_search_query"
    /\ Len(resp.history) = 1
    /\ resp.history[1].role = "user"
    /\ resp.message = "more"
    /\ resp.ret.appended = {}

-----------------------------------------------------------------------------
(* Properties of process_pdf *)

\* the two-page files of the scenario: the brake pads sentence on page 1, filler
\* lines shorter than 10 characters on page 2
ScenarioPdfs ==
    {<<BrakePadsPage, FillerPage(k, n)>> :
        k \in FillerLineCounts, n \in {m \in FillerLineLens : m < ShortLineLen}}

\* C15: after a successful process_pdf of a two-page file whose page 1 reads
\* 'Replace brake pads every 20,000 miles' and whose page 2 holds only filler lines
\* shorter than 10 characters, exactly one chunk is stored, the document is marked
\* processed and its page_count is 1.
C15_ScenarioOneChunkOnePage ==
    (pc = "processed" /\ pdf \in ScenarioPdfs)
        => (Len(stored) = 1 /\ document.processed /\ document.page_count = 1)

-----------------------------------------------------------------------------
(* Properties of the index snapshot *)

\* the matrix of the engine e has one row per entry of e.chunks, row i computed
\* from chunk i (an engine without a matrix holds no chunks)
Aligned(e) == e.document_vectors = e.chunks

\* C18: in every state reached by completed refresh_index calls, whichever way they
\* ended, the chunk list and the weight matrix of the engine belong to the same
\* build: one row per chunk, row i computed from chunk i.
C18_ChunksAndMatrixAligned == Aligned(vector_search)

-----------------------------------------------------------------------------
(* Properties of concurrent calls on the engine *)

\* C19: a search that runs while refresh_index runs on the shared engine makes all
\* its reads from one build: the chunk list it indexes, the vectorizer it transforms
\* the query with and the matrix it compares with belong together.
C19_SearchReadsOneBuild ==
    \A t \in DOMAIN threads :
        (threads[t].op = "search" /\ threads[t].outcome = "returned" /\ threads[t].results # <<>>)
            => /\ threads[t].matrix_read = threads[t].chunks_read
               /\ threads[t].vocabulary_read = Vocabulary(threads[t].chunks_read)

\* C20: when two refresh_index calls over different chunk sets have both finished
\* their build, the chunk list, the vectorizer and the matrix of the engine all come
\* from the same one of the two builds.
C20_RefreshesLeaveOneBuild ==
    (/\ DOMAIN threads = Threads
     /\ \A t \in Threads : threads[t].op = "refresh_index" /\ threads[t].outcome = "built"
     /\ threads[1].queried # threads[2].queried)
        => \E t \in Threads :
              /\ vector_search.chunks = threads[t].queried
              /\ vector_search.document_vectors = threads[t].queried
              /\ vector_search.vectorizer = "fitted"
              /\ vector_search.vocabulary = Vocabulary(threads[t].queried)

-----------------------------------------------------------------------------
(* Properties of the conversation buffer *)

\* C21: after any sequence of chat requests the stored conversation buffer of the
\* session holds at most 20 entries, and the history handed to chat_with_rag never
\* exceeds 20 entries.
C21_BufferAtMostMaxHistory ==
    /\ Len(session.chat_history) <= MaxHistory
    /\ (resp.op = "chat" /\ resp.searched) => Len(resp.history) <= MaxHistory

\* C23: a chat request whose generation fails leaves the conversation buffer of the
\* session exactly as it was before the request, whatever its length.
C23_FailedTurnKeepsBuffer ==
    [][(resp'.op = "chat" /\ resp'.fault = "generation")
          => session'.chat_history = session.chat_history]_vars

-----------------------------------------------------------------------------
(* Properties of the enhanced search query *)

\* the words of the user turns among the last 4 entries of h, punctuation stripped
RecentUserWords(h) ==
    LET recent == LastN(h, 4)
    IN UNION {{t.word : t \in Range(MessageOf(recent[i].content).tokens)} :
                 i \in {j \in DOMAIN recent : recent[j].role = "user"}}

\* C22: every term _build_enhanced_search_query appends to the message is strictly
\* longer than 3 characters, is not one of the excluded function words, and was
\* taken from a user-role turn among the last 4 history entries.
C22_AppendedTermsAreImportant ==
    resp.op = "build_enhanced_search_query" =>
        \A term \in resp.ret.appended :
            /\ Len(term) > MinWordLen
            /\ term \notin ExcludedWords
            /\ term \in RecentUserWords(resp.history)

-----------------------------------------------------------------------------
(* Properties of the assembled context *)

\* C24: in a successful turn context_used is true exactly when the assembled context
\* holds at least one chunk entry; with an empty result list, or with results whose
\* Documents all no longer exist, the context is empty and context_used is false.
C24_ContextUsedIffChunkEntry ==
    (resp.op \in {"chat", "chat_with_rag"} /\ resp.success /\ resp.searched)
        => (resp.context_used <=> resp.context_sources # <<>>)

\* the Document id holds a chunk with this text
Owns(id, chunk_text) == id \in DocIds /\ chunk_text \in Range(documents[id].chunks)

\* C25: every chunk text placed in the assembled context is attributed to the
\* Document it was extracted from, and every Document listed in
\* referenced_documents owns at least one chunk text of the result set of the turn,
\* chunks carried over from the previous turn included.
C25_SourcesNameOwningDocument ==
    (resp.op \in {"chat", "chat_with_rag"} /\ resp.success /\ resp.searched)
        => /\ \A i \in DOMAIN resp.context_sources :
                 Owns(resp.context_sources[i].chunk.document_id,
                      resp.context_sources[i].chunk.text_content)
           /\ \A i \in DOMAIN resp.referenced_documents :
                 \E j \in DOMAIN resp.results :
                    Owns(resp.referenced_documents[i].id, resp.results[j].chunk.text_content)

-----------------------------------------------------------------------------
(* Properties of the message list sent to the backend *)

\* C26: for every chat request that reaches generation, the message list sent to
\* the backend is the system prompt, then the prior turns of the session, then the
\* current user message exactly once, as the final entry.  (resp.history is the
\* list the route hands over: the prior turns followed by the current user turn.)
C26_CurrentMessageSentOnce ==
    (resp.op = "chat" /\ resp.searched)
        => resp.sent = <<[role |-> "system", content |-> "system_prompt"]>> \o resp.history

=============================================================================
